---------------------------- MODULE Spec2Model ----------------------------
(***************************************************************************)
(* Model of script.js: the amenity map viewer.  One asynchronous fetch of  *)
(* data.geojson populates allAmenitiesData; the click and keypress         *)
(* listeners run filterAndDisplayFeatures(searchInput.value), which        *)
(* interprets the query with three regular expressions, filters the loaded *)
(* features, replaces the displayed layer and frames the viewport.         *)
(*                                                                         *)
(* A JavaScript string is a sequence of one-character strings, so that     *)
(* toLowerCase, RegExp.test and indexOf are computed character by          *)
(* character.                                                              *)
(***************************************************************************)
EXTENDS Integers, Sequences, FiniteSets, TLC

VARIABLES
    fetchState,        \* the promise of fetch('data.geojson'): pending, resolved, rejected
    allAmenitiesData,  \* script.js:16
    currentLayer,      \* script.js:18
    mapLayers,         \* the result layers currently added to the Leaflet map
    view,              \* the viewport of the map
    searchInput,       \* searchInput.value
    notice,            \* the alert() raised by the most recent handler run
    loadFailureShown,  \* 'Could not load amenity data.' has been shown
    uncaught,          \* the most recent handler run ended in an uncaught TypeError
    lastEvent,         \* the event or callback that happened most recently
    lastQuery,         \* argument of the most recent call that got past line 40
    amenityFilter,     \* local of that call, script.js:50
    locationFilter     \* local of that call, script.js:58

vars == <<fetchState, allAmenitiesData, currentLayer, mapLayers, view, searchInput,
          notice, loadFailureShown, uncaught, lastEvent, lastQuery,
          amenityFilter, locationFilter>>

----------------------------------------------------------------------------
(* Bounds *)

\* number of fragments a typed query is assembled from (QuerySpec)
MaxFrags == 3
\* number of features of a loaded collection (Spec)
MaxFeatures == 2

----------------------------------------------------------------------------
(* Strings *)

LowerLetters ==
    <<"a","b","c","d","e","f","g","h","i","j","k","l","m",
      "n","o","p","q","r","s","t","u","v","w","x","y","z">>
UpperLetters ==
    <<"A","B","C","D","E","F","G","H","I","J","K","L","M",
      "N","O","P","Q","R","S","T","U","V","W","X","Y","Z">>

\* the lower-case letter of each upper-case letter
UpperToLower ==
    [u \in {UpperLetters[i] : i \in 1..26} |->
        LowerLetters[CHOOSE i \in 1..26 : UpperLetters[i] = u]]

\* String.prototype.toLowerCase on one character
LowerChar(c) == IF c \in DOMAIN UpperToLower THEN UpperToLower[c] ELSE c

\* String.prototype.toLowerCase
toLowerCase(s) == [i \in 1..Len(s) |-> LowerChar(s[i])]

\* the class \s of a regular expression, over the characters of the model
IsWhitespace(c) == c \in {" ", "\t"}

\* a nullable string: null, or a string value
NullStr == [null |-> TRUE, s |-> <<>>]
Some(s) == [null |-> FALSE, s |-> s]
\* JavaScript truthiness of a nullable string: null and '' are falsy
TruthyStr(x) == ~x.null /\ x.s # <<>>

\* the literals of the three patterns
park == <<"p","a","r","k">>
hospital == <<"h","o","s","p","i","t","a","l">>
clinic == <<"c","l","i","n","i","c">>
near == <<"n","e","a","r">>
at == <<"a","t">>
in == <<"i","n">>
corniche == <<"c","o","r","n","i","c","h","e">>
letterS == <<"s">>

----------------------------------------------------------------------------
(* Regular expressions: a pattern element maps a set of positions where    *)
(* matching may continue to the set of positions after the element.        *)

\* a literal
AfterLit(s, starts, lit) ==
    { p + Len(lit) : p \in { q \in starts :
          /\ q + Len(lit) - 1 <= Len(s)
          /\ SubSeq(s, q, q + Len(lit) - 1) = lit } }

\* x? : the element is optional
AfterOpt(s, starts, lit) == starts \cup AfterLit(s, starts, lit)

\* \s+ : one or more whitespace characters
AfterWsPlus(s, starts) ==
    { e \in 2..(Len(s) + 1) :
        \E p \in starts : p < e /\ \A j \in p..(e - 1) : IsWhitespace(s[j]) }

\* the positions RegExp.test tries as the start of a match
Starts(s) == 1..(Len(s) + 1)

----------------------------------------------------------------------------
(* Query Interpreter, script.js:47-61 *)

\* /(parks?)/.test(s)
TestParks(s) ==
    \E i \in Starts(s) : AfterOpt(s, AfterLit(s, {i}, park), letterS) # {}

\* /(hospitals?|clinics?)/.test(s)
TestHospitals(s) ==
    \E i \in Starts(s) :
        \/ AfterOpt(s, AfterLit(s, {i}, hospital), letterS) # {}
        \/ AfterOpt(s, AfterLit(s, {i}, clinic), letterS) # {}

\* /(near|at|in)\s+(corniche)/.test(s)
TestLocation(s) ==
    \E i \in Starts(s) :
        LET prep == AfterLit(s, {i}, near) \cup AfterLit(s, {i}, at)
                        \cup AfterLit(s, {i}, in)
        IN  AfterLit(s, AfterWsPlus(s, prep), corniche) # {}

NoAmenity == "null"

\* mutant: the hospital/clinic pattern is tested before the park pattern
AmenityFilterHospitalFirst(lowerQuery) ==
    IF TestHospitals(lowerQuery) THEN "hospital"
    ELSE IF TestParks(lowerQuery) THEN "park"
    ELSE NoAmenity

\* mutant: /\bparks?\b/, the park keyword only as a whole word
AmenityFilterWholeWord(lowerQuery) ==
    IF \E i \in Starts(lowerQuery) :
          \E e \in AfterOpt(lowerQuery, AfterLit(lowerQuery, {i}, park), letterS) :
              /\ (i = 1 \/ IsWhitespace(lowerQuery[i - 1]))
              /\ (e = Len(lowerQuery) + 1 \/ IsWhitespace(lowerQuery[e]))
    THEN "park"
    ELSE IF TestHospitals(lowerQuery) THEN "hospital"
    ELSE NoAmenity

\* script.js:50-55
AmenityFilterOf(lowerQuery) ==
    IF TestParks(lowerQuery) THEN "park"
    ELSE IF TestHospitals(lowerQuery) THEN "hospital"
    ELSE NoAmenity

\* mutant: /(near|at|in)\s*(corniche)/, the whitespace optional
LocationFilterOptionalSpace(lowerQuery) ==
    IF \E i \in Starts(lowerQuery) :
          LET prep == AfterLit(lowerQuery, {i}, near) \cup AfterLit(lowerQuery, {i}, at)
                          \cup AfterLit(lowerQuery, {i}, in)
          IN  AfterLit(lowerQuery, prep \cup AfterWsPlus(lowerQuery, prep), corniche) # {}
    THEN Some(corniche)
    ELSE NullStr

\* script.js:58-61
LocationFilterOf(lowerQuery) ==
    IF TestLocation(lowerQuery) THEN Some(corniche) ELSE NullStr

----------------------------------------------------------------------------
(* Filter Evaluator, script.js:64-84 *)

\* String.prototype.indexOf: the 0-based index of the first occurrence, or -1
indexOf(s, pat) ==
    LET hits == { i \in 1..(Len(s) + 1) : AfterLit(s, {i}, pat) # {} }
    IN  IF hits = {} THEN -1
        ELSE (CHOOSE i \in hits : \A j \in hits : i <= j) - 1

\* mutant: the area is compared without toLowerCase
FeatureMatchCaseSensitive(feature, af, lf) ==
    LET props == feature
        match1 == ~(af # NoAmenity /\ props.amenity_type # af)
    IN  IF match1 /\ TruthyStr(lf)
        THEN ~(~TruthyStr(props.area) \/ indexOf(props.area.s, lf.s) = -1)
        ELSE match1

\* the callback of Array.prototype.filter, script.js:64-84
FeatureMatch(feature, af, lf) ==
    LET props == feature
        match1 == ~(af # NoAmenity /\ props.amenity_type # af)
    IN  IF match1 /\ TruthyStr(lf)
        THEN ~(~TruthyStr(props.area) \/ indexOf(toLowerCase(props.area.s), lf.s) = -1)
        ELSE match1

\* mutant: elements are removed in place while iterating, so the element
\* that follows a removed one is never tested
RECURSIVE FilterSkipAfterRemoval(_, _, _)
FilterSkipAfterRemoval(features, af, lf) ==
    IF features = <<>> THEN <<>>
    ELSE IF FeatureMatch(Head(features), af, lf)
         THEN <<Head(features)>> \o FilterSkipAfterRemoval(Tail(features), af, lf)
         ELSE IF Len(features) = 1 THEN <<>>
              ELSE <<features[2]>> \o FilterSkipAfterRemoval(Tail(Tail(features)), af, lf)

\* Array.prototype.filter with the callback above: visits the elements in
\* index order and appends the accepted ones to a new array
RECURSIVE FilterFeatures(_, _, _)
FilterFeatures(features, af, lf) ==
    IF features = <<>> THEN <<>>
    ELSE IF FeatureMatch(Head(features), af, lf)
         THEN <<Head(features)>> \o FilterFeatures(Tail(features), af, lf)
         ELSE FilterFeatures(Tail(features), af, lf)

----------------------------------------------------------------------------
(* Store, layers and viewport *)

NullData == [type |-> "null", features |-> <<>>]
\* JSON that parses to 0, false or ''
FalsyData == [type |-> "falsy", features |-> <<>>]
\* JSON that parses to a truthy value without a features array, such as {}
NoFeaturesData == [type |-> "object", features |-> <<>>]
Collection(fs) == [type |-> "FeatureCollection", features |-> fs]

\* mutant: the guard of line 40 lets every call through
TruthyAlways(data) == data = data

\* !allAmenitiesData is false, script.js:40
Truthy(data) == data.type \notin {"null", "falsy"}

\* allAmenitiesData.features is an array, script.js:64
HasFeaturesArray(data) == data.type = "FeatureCollection"

NoLayer == [present |-> FALSE, features |-> <<>>]
\* L.geoJSON(filteredGeoJSON, ...), script.js:87-109
geoJSON(ff) == [present |-> TRUE, features |-> ff]

\* mutant: the previous layer is left on the map
removeLayerForgotten(layers, layer) == layers

\* map.removeLayer(layer), script.js:44
removeLayer(layers, layer) ==
    IF \E i \in 1..Len(layers) : layers[i] = layer
    THEN LET k == CHOOSE i \in 1..Len(layers) :
                      layers[i] = layer /\ \A j \in 1..(i - 1) : layers[j] # layer
         IN  SubSeq(layers, 1, k - 1) \o SubSeq(layers, k + 1, Len(layers))
    ELSE layers

INITIAL_ZOOM == 12
\* map.setView(ABU_DHABI_CENTER, INITIAL_ZOOM), script.js:7 and 117
DefaultView == [kind |-> "setView", zoom |-> INITIAL_ZOOM, bounds |-> <<>>]
\* map.fitBounds(currentLayer.getBounds(), ...), script.js:113
FitView(ff) == [kind |-> "fitBounds", zoom |-> 0, bounds |-> ff]
\* the user dragged or zoomed the map
PannedView == [kind |-> "user", zoom |-> 0, bounds |-> <<>>]

NoNotice == "none"
NoResultsNotice == "No results found for your query."
LoadFailureNotice == "Could not load amenity data."

\* mutant: the notice is raised for every empty result
NoResultsAlways(ff, query) == Len(ff) = 0

\* the else-if branch of script.js:112-118 is taken
NoResults(ff, query) == ~(Len(ff) > 0) /\ query # <<>>

\* mutant: the filtered array is assigned back to the store
StoreAfterFilterInPlace(data, ff) == [data EXCEPT !.features = ff]

\* allAmenitiesData after lines 64-90: filter returns a new array and
\* filteredGeoJSON is a new object, the store is not assigned
StoreAfterFilter(data, ff) == data

----------------------------------------------------------------------------
(* filterAndDisplayFeatures(query), script.js:39-119, as a function of the  *)
(* globals it reads.  The result holds the globals it leaves behind, the    *)
(* alert it raised, its locals, and whether it returned early or threw.     *)

filterAndDisplayFeatures(data, cur, layers, vw, query) ==
    IF ~Truthy(data)
    THEN \* line 40: return
         [ran |-> FALSE, threw |-> FALSE, data |-> data, currentLayer |-> cur,
          mapLayers |-> layers, view |-> vw, notice |-> NoNotice,
          amenityFilter |-> NoAmenity, locationFilter |-> NullStr]
    ELSE LET cleared == IF cur.present THEN removeLayer(layers, cur) ELSE layers
             lowerQuery == toLowerCase(query)
             af == AmenityFilterOf(lowerQuery)
             lf == LocationFilterOf(lowerQuery)
         IN  IF ~HasFeaturesArray(data)
             THEN \* line 64: TypeError, allAmenitiesData.features has no filter
                  [ran |-> FALSE, threw |-> TRUE, data |-> data, currentLayer |-> cur,
                   mapLayers |-> cleared, view |-> vw, notice |-> NoNotice,
                   amenityFilter |-> af, locationFilter |-> lf]
             ELSE LET filteredFeatures == FilterFeatures(data.features, af, lf)
                      layer == geoJSON(filteredFeatures)
                  IN  [ran |-> TRUE, threw |-> FALSE,
                       data |-> StoreAfterFilter(data, filteredFeatures),
                       currentLayer |-> layer,
                       mapLayers |-> Append(cleared, layer),
                       view |-> IF Len(filteredFeatures) > 0
                                THEN FitView(filteredFeatures)
                                ELSE IF NoResults(filteredFeatures, query)
                                     THEN DefaultView ELSE vw,
                       notice |-> IF Len(filteredFeatures) > 0 THEN NoNotice
                                  ELSE IF NoResults(filteredFeatures, query)
                                       THEN NoResultsNotice ELSE NoNotice,
                       amenityFilter |-> af, locationFilter |-> lf]

----------------------------------------------------------------------------
(* Inputs *)

\* the features a data.geojson of the model is made of
Corniche == <<"C","o","r","n","i","c","h","e">>
FeatureKinds ==
    { [amenity_type |-> "park",     area |-> Some(Corniche \o <<" ">> \o <<"R","d">>)],
      [amenity_type |-> "park",     area |-> NullStr],
      [amenity_type |-> "hospital", area |-> Some(<<"A","l"," ">> \o corniche)],
      [amenity_type |-> "hospital", area |-> Some(<<"M","a","r","i","n","a">>)],
      [amenity_type |-> "school",   area |-> Some(<<>>)] }

\* the feature arrays of at most n elements
RECURSIVE FeatureSeqs(_)
FeatureSeqs(n) ==
    IF n = 0 THEN { <<>> }
    ELSE LET shorter == FeatureSeqs(n - 1)
         IN  shorter \cup { Append(fs, f) : fs \in shorter, f \in FeatureKinds }

Collections == { Collection(fs) : fs \in FeatureSeqs(MaxFeatures) }

\* what response.json() can resolve to
JsonValues == Collections \cup {NullData, FalsyData, NoFeaturesData}

\* the queries of scenarios A to D of the specification and three more
Parks == <<"p","a","r","k","s">>
SessionQueries ==
    { <<>>,
      <<" ">>,
      <<"S","h","o","w"," ">> \o Parks,
      hospital \o <<"s"," ">> \o near \o <<" ">> \o Corniche,
      Parks \o <<" ">> \o in \o <<" ","D","o","w","n","t","o","w","n">>,
      at \o <<" ">> \o corniche,
      <<"s","c","h","o","o","l","s">> }

----------------------------------------------------------------------------
(* The session *)

Init ==
    /\ fetchState = "pending"
    /\ allAmenitiesData = NullData
    /\ currentLayer = NoLayer
    /\ mapLayers = <<>>
    /\ view = DefaultView
    /\ searchInput = <<>>
    /\ notice = NoNotice
    /\ loadFailureShown = FALSE
    /\ uncaught = FALSE
    /\ lastEvent = "none"
    /\ lastQuery = NullStr
    /\ amenityFilter = NoAmenity
    /\ locationFilter = NullStr

\* what a listener does: filterAndDisplayFeatures(searchInput.value)
Submit(handler) ==
    \E r \in {filterAndDisplayFeatures(allAmenitiesData, currentLayer, mapLayers,
                                       view, searchInput)} :
        /\ allAmenitiesData' = r.data
        /\ currentLayer' = r.currentLayer
        /\ mapLayers' = r.mapLayers
        /\ view' = r.view
        /\ notice' = r.notice
        /\ uncaught' = r.threw
        /\ lastEvent' = handler
        /\ lastQuery' = IF r.ran THEN Some(searchInput) ELSE lastQuery
        /\ amenityFilter' = IF r.ran THEN r.amenityFilter ELSE amenityFilter
        /\ locationFilter' = IF r.ran THEN r.locationFilter ELSE locationFilter
        /\ UNCHANGED <<fetchState, searchInput, loadFailureShown>>

\* script.js:127-129
Click == Submit("click")

\* script.js:132-136
Keypress(key) ==
    IF key = "Enter"
    THEN Submit("Enter")
    ELSE /\ lastEvent' = "key"
         /\ notice' = NoNotice
         /\ uncaught' = FALSE
         /\ UNCHANGED <<fetchState, allAmenitiesData, currentLayer, mapLayers, view,
                        searchInput, loadFailureShown, lastQuery, amenityFilter,
                        locationFilter>>

\* the user edits the text field
Type(q) ==
    /\ searchInput # q
    /\ searchInput' = q
    /\ lastEvent' = "input"
    /\ notice' = NoNotice
    /\ uncaught' = FALSE
    /\ UNCHANGED <<fetchState, allAmenitiesData, currentLayer, mapLayers, view,
                   loadFailureShown, lastQuery, amenityFilter, locationFilter>>

\* the user drags or zooms the map
Pan ==
    /\ view # PannedView
    /\ view' = PannedView
    /\ lastEvent' = "move"
    /\ notice' = NoNotice
    /\ uncaught' = FALSE
    /\ UNCHANGED <<fetchState, allAmenitiesData, currentLayer, mapLayers, searchInput,
                   loadFailureShown, lastQuery, amenityFilter, locationFilter>>

\* script.js:22-32, the fetch and response.json() resolve with data: the
\* second then-callback runs, and the catch-callback if it throws
FetchThen(data) ==
    /\ fetchState = "pending"
    /\ fetchState' = "resolved"
    /\ \E r \in {filterAndDisplayFeatures(data, currentLayer, mapLayers, view, <<>>)} :
           /\ allAmenitiesData' = r.data
           /\ currentLayer' = r.currentLayer
           /\ mapLayers' = r.mapLayers
           /\ view' = r.view
           /\ notice' = IF r.threw THEN LoadFailureNotice ELSE r.notice
           /\ loadFailureShown' = r.threw
           /\ uncaught' = FALSE
           /\ lastEvent' = IF r.threw THEN "catch" ELSE "then"
           /\ lastQuery' = IF r.ran THEN Some(<<>>) ELSE lastQuery
           /\ amenityFilter' = IF r.ran THEN r.amenityFilter ELSE amenityFilter
           /\ locationFilter' = IF r.ran THEN r.locationFilter ELSE locationFilter
    /\ UNCHANGED searchInput

\* script.js:22-32, the fetch or response.json() rejects (network error,
\* unparseable body): the catch-callback runs
FetchCatch ==
    /\ fetchState = "pending"
    /\ fetchState' = "rejected"
    /\ notice' = LoadFailureNotice
    /\ loadFailureShown' = TRUE
    /\ uncaught' = FALSE
    /\ lastEvent' = "catch"
    /\ UNCHANGED <<allAmenitiesData, currentLayer, mapLayers, view, searchInput,
                   lastQuery, amenityFilter, locationFilter>>

Next ==
    \/ Click
    \/ \E key \in {"Enter", "a"} : Keypress(key)
    \/ \E q \in SessionQueries : Type(q)
    \/ Pan
    \/ \E data \in JsonValues : FetchThen(data)
    \/ FetchCatch

Spec == Init /\ [][Next]_vars

----------------------------------------------------------------------------
(* The interpreter on typed queries: the state after data.geojson loaded   *)
(* and the user typed a query assembled from fragments; the listeners run  *)
(* on it.                                                                  *)

Fragments ==
    { park, letterS, <<"H","o","s","p","i","t","a","l">>, clinic \o letterS,
      <<"N","e","a","r"," ">>, at \o <<"\t"," ">>, in, <<" ">>, Corniche }

\* the strings of at most n fragments
RECURSIVE TypedQueries(_)
TypedQueries(n) ==
    IF n = 0 THEN { <<>> }
    ELSE LET shorter == TypedQueries(n - 1)
         IN  shorter \cup { q \o f : q \in shorter, f \in Fragments }

\* the data.geojson of this specification
SampleData ==
    Collection(<<[amenity_type |-> "park", area |-> Some(Corniche)],
                 [amenity_type |-> "hospital", area |-> Some(<<"A","l"," ">> \o corniche)],
                 [amenity_type |-> "school", area |-> NullStr]>>)

InitQ ==
    \E q \in TypedQueries(MaxFrags) :
    \E r \in {filterAndDisplayFeatures(SampleData, NoLayer, <<>>, DefaultView, <<>>)} :
        /\ fetchState = "resolved"
        /\ allAmenitiesData = r.data
        /\ currentLayer = r.currentLayer
        /\ mapLayers = r.mapLayers
        /\ view = r.view
        /\ searchInput = q
        /\ notice = NoNotice
        /\ loadFailureShown = FALSE
        /\ uncaught = FALSE
        /\ lastEvent = "input"
        /\ lastQuery = Some(<<>>)
        /\ amenityFilter = r.amenityFilter
        /\ locationFilter = r.locationFilter

NextQ ==
    \/ Click
    \/ \E key \in {"Enter", "a"} : Keypress(key)

QuerySpec == InitQ /\ [][NextQ]_vars

----------------------------------------------------------------------------
(* Properties *)

\* s contains pat as a substring
Contains(s, pat) ==
    \E i \in 1..(Len(s) - Len(pat) + 1) :
        \A j \in 1..Len(pat) : s[i + j - 1] = pat[j]

\* pat occurs in s at position i, compared case-insensitively
OccursIgnoreCase(s, i, pat) ==
    /\ i >= 1
    /\ i + Len(pat) - 1 <= Len(s)
    /\ \A j \in 1..Len(pat) : LowerChar(s[i + j - 1]) = LowerChar(pat[j])

\* the class \w of a regular expression, over the characters of the model
IsWordChar(c) == LowerChar(c) \in {LowerLetters[i] : i \in 1..26}

\* s contains "park" or "parks" as a whole word: a word boundary on each side
ContainsParkWord(s) ==
    \E w \in {park, park \o letterS} :
    \E i \in 1..(Len(s) - Len(w) + 1) :
        /\ \A j \in 1..Len(w) : s[i + j - 1] = w[j]
        /\ (i = 1 \/ ~IsWordChar(s[i - 1]))
        /\ (i + Len(w) = Len(s) + 1 \/ ~IsWordChar(s[i + Len(w)]))

\* q contains "near", "at" or "in", then one or more whitespace characters,
\* then "corniche", compared case-insensitively
ContainsLocationPhrase(q) ==
    \E prep \in {near, at, in} :
    \E i \in 1..Len(q) :
        /\ OccursIgnoreCase(q, i, prep)
        /\ \E k \in 1..(Len(q) - i - Len(prep) + 1) :
              /\ \A j \in 0..(k - 1) : IsWhitespace(q[i + Len(prep) + j])
              /\ OccursIgnoreCase(q, i + Len(prep) + k, corniche)

\* a query has been processed on a loaded feature collection
Processed == HasFeaturesArray(allAmenitiesData) /\ ~lastQuery.null

\* the most recent event was a submission of the text field
Submitted == lastEvent \in {"click", "Enter"}

\* the condition of C1 on one feature, for the filters of the last query
MatchesQueryFilter(f) ==
    /\ (amenityFilter = NoAmenity \/ f.amenity_type = amenityFilter)
    /\ (locationFilter.null
          \/ (~f.area.null /\ Contains(toLowerCase(f.area.s), locationFilter.s)))

\* C1: the displayed features are exactly the features of the collection that
\* match the two filters of the query, in the order of the collection; a
\* feature without area is never displayed under a location filter, and with
\* both filters absent the whole collection is displayed.
C1_DisplayedIsMatchingSubsequence ==
    Processed =>
        /\ currentLayer.present
        /\ currentLayer.features = SelectSeq(allAmenitiesData.features, MatchesQueryFilter)
        /\ (~locationFilter.null =>
               \A i \in 1..Len(currentLayer.features) : ~currentLayer.features[i].area.null)
        /\ (amenityFilter = NoAmenity /\ locationFilter.null =>
               currentLayer.features = allAmenitiesData.features)

C1_Witness ==
    /\ Processed /\ Submitted
    /\ amenityFilter = "hospital" /\ ~locationFilter.null
    /\ Len(allAmenitiesData.features) = 2
    /\ allAmenitiesData.features[1].amenity_type = "hospital"
    /\ allAmenitiesData.features[1] # allAmenitiesData.features[2]
    /\ currentLayer.features = <<allAmenitiesData.features[2]>>

\* C2: a click or an Enter keypress while the fetch is pending changes neither
\* the displayed layer, nor the viewport, nor the loaded data, raises no notice
\* and no error.
C2_SubmitBeforeLoadIsNoOp ==
    [][(fetchState = "pending" /\ lastEvent' \in {"click", "Enter"}) =>
          /\ UNCHANGED <<currentLayer, mapLayers, view, allAmenitiesData>>
          /\ currentLayer' = NoLayer /\ mapLayers' = <<>>
          /\ notice' = NoNotice
          /\ uncaught' = FALSE]_vars

C2_Witness ==
    /\ fetchState = "pending" /\ Submitted
    /\ searchInput # <<>> /\ view = PannedView

\* C3: when the fetch fails or yields anything but a feature collection, the
\* load-failure notice has been shown and no layer is ever displayed.
C3_LoadFailureIsNoticed ==
    (fetchState = "rejected"
        \/ (fetchState = "resolved" /\ ~HasFeaturesArray(allAmenitiesData))) =>
        /\ loadFailureShown
        /\ currentLayer = NoLayer /\ mapLayers = <<>>

\* C4: after a successful load a submitted query raises the no-results notice
\* and resets the viewport to the default exactly when its result is empty and
\* the query string is not; the empty query raises no notice and leaves the
\* viewport alone when nothing matches; a query with results raises no notice
\* and fits the viewport to them.
C4_NoResultsNotice ==
    [][(HasFeaturesArray(allAmenitiesData') /\ lastEvent' \in {"click", "Enter"}) =>
          LET empty == currentLayer'.features = <<>>
              asked == lastQuery'.s # <<>>
          IN  /\ lastQuery' = Some(searchInput)
              /\ (notice' = NoResultsNotice) <=> (empty /\ asked)
              /\ (empty /\ asked) => view' = DefaultView
              /\ (empty /\ ~asked) => view' = view
              /\ ~empty => (view' = FitView(currentLayer'.features) /\ notice' = NoNotice)
      ]_vars

C4_Witness ==
    /\ Processed /\ Submitted
    /\ allAmenitiesData.features # <<>>
    /\ currentLayer.features = <<>>
    /\ notice = NoResultsNotice /\ view = DefaultView

\* C5 as stated: amenityFilter is "park" exactly when the lowercased query
\* contains "park" or "parks" as a whole word.
C5_ParkOnlyAsWholeWord ==
    Processed =>
        (amenityFilter = "park" <=> ContainsParkWord(toLowerCase(lastQuery.s)))

\* C5 amended: amenityFilter is "park" exactly when the lowercased query
\* contains the letters "park" anywhere, also inside a longer word; a query
\* with neither "park" nor "hospital" nor "clinic" in it gets no amenity filter.
C5_ParkAsSubstring ==
    Processed =>
        LET l == toLowerCase(lastQuery.s)
        IN  /\ amenityFilter = "park" <=> Contains(l, park)
            /\ (~Contains(l, park) /\ ~Contains(l, hospital) /\ ~Contains(l, clinic)) =>
                   amenityFilter = NoAmenity

C5_Witness ==
    /\ Processed /\ Submitted
    /\ lastQuery.s = letterS \o park
    /\ amenityFilter = "park"

\* C6: a query with both a park keyword and a hospital/clinic keyword gets
\* "park"; one with a hospital/clinic keyword and no park keyword gets
\* "hospital"; amenityFilter is never anything but "park", "hospital" or absent.
C6_ParkBeforeHospital ==
    Processed =>
        LET l == toLowerCase(lastQuery.s)
            p == Contains(l, park)
            h == Contains(l, hospital) \/ Contains(l, clinic)
        IN  /\ (p /\ h) => amenityFilter = "park"
            /\ (h /\ ~p) => amenityFilter = "hospital"
            /\ amenityFilter \in {"park", "hospital", NoAmenity}

C6_Witness ==
    /\ Processed /\ Submitted
    /\ Contains(toLowerCase(lastQuery.s), hospital)
    /\ Contains(toLowerCase(lastQuery.s), park)
    /\ amenityFilter = "park"

\* C7: locationFilter is "corniche" exactly when the query contains, compared
\* case-insensitively, "near", "at" or "in", then whitespace, then "corniche",
\* and is absent otherwise, whatever the amenity filter is.
C7_LocationPhrase ==
    Processed =>
        /\ locationFilter = Some(corniche) <=> ContainsLocationPhrase(lastQuery.s)
        /\ ~ContainsLocationPhrase(lastQuery.s) => locationFilter = NullStr

C7_Witness ==
    /\ Processed /\ Submitted
    /\ locationFilter = Some(corniche)
    /\ amenityFilter = "park"
    /\ lastQuery.s # toLowerCase(lastQuery.s)

\* C8: filtering the displayed features again with the filters of the same
\* query returns them unchanged.
C8_FilterIdempotent ==
    Processed =>
        FilterFeatures(currentLayer.features, amenityFilter, locationFilter)
            = currentLayer.features

C8_Witness ==
    /\ Processed /\ Submitted
    /\ Len(allAmenitiesData.features) = 2
    /\ Len(currentLayer.features) = 1
    /\ ~locationFilter.null

\* C9: after a successful load the map holds exactly one result layer, the
\* current one, and it is the result of the last query alone.
C9_OneLayerOfLastQuery ==
    (fetchState = "resolved" /\ HasFeaturesArray(allAmenitiesData)) =>
        /\ Len(mapLayers) <= 1
        /\ mapLayers = <<currentLayer>>
        /\ ~lastQuery.null
        /\ currentLayer =
              geoJSON(FilterFeatures(allAmenitiesData.features,
                                     AmenityFilterOf(toLowerCase(lastQuery.s)),
                                     LocationFilterOf(toLowerCase(lastQuery.s))))

C9_Witness ==
    /\ Processed /\ Submitted
    /\ lastQuery.s # <<>>
    /\ Len(mapLayers) = 1
    /\ Len(currentLayer.features) = 1
    /\ Len(allAmenitiesData.features) = 2

\* C10: allAmenitiesData changes only when the pending fetch resolves, from
\* null to the fetched value; no query changes it.
C10_StoreWrittenOnce ==
    [][(allAmenitiesData' # allAmenitiesData) =>
          /\ fetchState = "pending" /\ fetchState' = "resolved"
          /\ allAmenitiesData = NullData
          /\ lastEvent' \in {"then", "catch"}]_vars

C10_Witness ==
    /\ Processed /\ Submitted
    /\ Len(allAmenitiesData.features) = 2
    /\ currentLayer.features = <<>>
====
